---- MODULE Spec2Model ----
(***************************************************************************)
(* normalize_superstore_data (normalize.py): load the flat Superstore CSV, *)
(* derive seven tables from it with pandas and write each one to           *)
(* normalized_superstore_data/<table>.csv as soon as it is derived.        *)
(*                                                                         *)
(* A DataFrame is modelled as [columns |-> sequence of column names,       *)
(* rows |-> sequence of rows]; a row is a function from column names to    *)
(* cell values.  The position of a row in the sequence is its pandas index *)
(* plus one (every frame used here carries a fresh RangeIndex), so         *)
(* reset_index(drop=True) leaves the sequence as it is and "index + 1" is  *)
(* the position.                                                           *)
(***************************************************************************)
EXTENDS Integers, Sequences, FiniteSets, TLC

\* ------------------------------------------------------------------ bounds
MaxRows == 3
MaxRuns == 2
MaxCalls == 4

\* --------------------------------------------------------------- utilities
Range(s) == {s[i] : i \in DOMAIN s}

RECURSIVE SumOver(_, _)
SumOver(rows, col) ==
    IF rows = <<>> THEN 0 ELSE rows[1][col] + SumOver(Tail(rows), col)

RECURSIVE GCD(_, _)
GCD(a, b) == IF b = 0 THEN a ELSE GCD(b, a % b)

Abs(n) == IF n < 0 THEN 0 - n ELSE n

\* A missing cell (pandas reads an empty CSV cell as NaN).  Order ID and
\* Product ID cells are modelled by their lexicographic rank, 1, 2, ...;
\* 0 stands for the missing value.
NA == 0

\* The arithmetic mean of a column as a fraction in lowest terms.
Mean(rows, col) ==
    LET s == SumOver(rows, col)
        n == Len(rows)
        g == GCD(Abs(s), n)
    IN  <<s \div g, n \div g>>

\* ------------------------------------------------------ pandas operations
\* df[[c1, c2, ...]]
Select(df, cols) ==
    [columns |-> cols,
     rows    |-> [i \in 1..Len(df.rows) |->
                     [c \in Range(cols) |-> df.rows[i][c]]]]

\* drop_duplicates as it would be without subset=: whole rows are compared.
drop_duplicates_whole_row(df, subset) ==
    LET IsFirst(i) == \A j \in 1..(i - 1) : df.rows[j] # df.rows[i]
        RECURSIVE Build(_)
        Build(n) == IF n = 0 THEN <<>>
                    ELSE IF IsFirst(n) THEN Append(Build(n - 1), df.rows[n])
                    ELSE Build(n - 1)
    IN  [columns |-> df.columns, rows |-> Build(Len(df.rows))]

\* drop_duplicates as it would be with keep='last'.
drop_duplicates_keep_last(df, subset) ==
    LET Key(i) == [c \in subset |-> df.rows[i][c]]
        IsLast(i) == \A j \in (i + 1)..Len(df.rows) : Key(j) # Key(i)
        RECURSIVE Build(_)
        Build(n) == IF n = 0 THEN <<>>
                    ELSE IF IsLast(n) THEN Append(Build(n - 1), df.rows[n])
                    ELSE Build(n - 1)
    IN  [columns |-> df.columns, rows |-> Build(Len(df.rows))]

\* df.drop_duplicates(subset=...): keep='first', the order of the kept rows
\* is the order of the frame.
drop_duplicates(df, subset) ==
    LET Key(i) == [c \in subset |-> df.rows[i][c]]
        IsFirst(i) == \A j \in 1..(i - 1) : Key(j) # Key(i)
        RECURSIVE Build(_)
        Build(n) == IF n = 0 THEN <<>>
                    ELSE IF IsFirst(n) THEN Append(Build(n - 1), df.rows[n])
                    ELSE Build(n - 1)
    IN  [columns |-> df.columns, rows |-> Build(Len(df.rows))]

\* df.rename(columns=m): m maps some of the column names to new names.
rename(df, m) ==
    LET New(c) == IF c \in DOMAIN m THEN m[c] ELSE c
        Old(n) == CHOOSE c \in Range(df.columns) : New(c) = n
    IN  [columns |-> [k \in 1..Len(df.columns) |-> New(df.columns[k])],
         rows    |-> [i \in 1..Len(df.rows) |->
                         [n \in {New(c) : c \in Range(df.columns)} |->
                             df.rows[i][Old(n)]]]]

\* pd.DataFrame(df[col].unique(), columns=[name]): the distinct values of a
\* column in order of first appearance, as a one-column frame.
unique(df, col, name) ==
    LET d == drop_duplicates(Select(df, <<col>>), {col})
    IN  [columns |-> <<name>>,
         rows    |-> [i \in 1..Len(d.rows) |-> [c \in {name} |-> d.rows[i][col]]]]

\* frame[name] = frame.index + 1
index_plus_one(df, name) ==
    [columns |-> Append(df.columns, name),
     rows    |-> [i \in 1..Len(df.rows) |->
                     [c \in Range(df.columns) \cup {name} |->
                         IF c = name THEN i ELSE df.rows[i][c]]]]

\* merge as it would be if the result were grouped by join key (keys in order
\* of first appearance in the left frame) instead of following the left rows.
merge_grouped_by_key(left, right, on) ==
    LET rcols == SelectSeq(right.columns, LAMBDA c : c # on)
        cols  == left.columns \o rcols
        Join(l, r) == [c \in Range(cols) |->
                          IF c \in Range(left.columns) THEN l[c] ELSE r[c]]
        RECURSIVE Matches(_, _)
        Matches(l, j) ==
            IF j > Len(right.rows) THEN <<>>
            ELSE IF right.rows[j][on] = l[on]
                 THEN <<Join(l, right.rows[j])>> \o Matches(l, j + 1)
                 ELSE Matches(l, j + 1)
        IsFirst(i) == \A j \in 1..(i - 1) : left.rows[j][on] # left.rows[i][on]
        RECURSIVE OfKey(_, _)
        OfKey(k, i) == IF i > Len(left.rows) THEN <<>>
                       ELSE IF left.rows[i][on] = k
                            THEN Matches(left.rows[i], 1) \o OfKey(k, i + 1)
                            ELSE OfKey(k, i + 1)
        RECURSIVE Build(_)
        Build(i) == IF i > Len(left.rows) THEN <<>>
                    ELSE IF IsFirst(i)
                         THEN OfKey(left.rows[i][on], 1) \o Build(i + 1)
                         ELSE Build(i + 1)
    IN  [columns |-> cols, rows |-> Build(1)]

\* merge as it would be if the frames were joined on their index, as
\* left.join(right) does, instead of on the key column.
merge_on_index(left, right, on) ==
    LET rcols == SelectSeq(right.columns, LAMBDA c : c # on)
        cols  == left.columns \o rcols
        Join(l, r) == [c \in Range(cols) |->
                          IF c \in Range(left.columns) THEN l[c] ELSE r[c]]
        n == IF Len(left.rows) < Len(right.rows) THEN Len(left.rows)
             ELSE Len(right.rows)
    IN  [columns |-> cols,
         rows    |-> [i \in 1..n |-> Join(left.rows[i], right.rows[i])]]

\* pd.merge(left, right, on=on): how='inner', sort=False.  The rows follow
\* the order of the left frame; a left row with several matches in the right
\* frame gives one row per match, in the order of the right frame; a left
\* row with no match gives none.
merge(left, right, on) ==
    LET rcols == SelectSeq(right.columns, LAMBDA c : c # on)
        cols  == left.columns \o rcols
        Join(l, r) == [c \in Range(cols) |->
                          IF c \in Range(left.columns) THEN l[c] ELSE r[c]]
        RECURSIVE Matches(_, _)
        Matches(l, j) ==
            IF j > Len(right.rows) THEN <<>>
            ELSE IF right.rows[j][on] = l[on]
                 THEN <<Join(l, right.rows[j])>> \o Matches(l, j + 1)
                 ELSE Matches(l, j + 1)
        RECURSIVE Build(_)
        Build(i) == IF i > Len(left.rows) THEN <<>>
                    ELSE Matches(left.rows[i], 1) \o Build(i + 1)
    IN  [columns |-> cols, rows |-> Build(1)]

\* Lexicographic order of (Order ID, Product ID) keys.
KeyLess(a, b) == a[1] < b[1] \/ (a[1] = b[1] /\ a[2] < b[2])

RECURSIVE SortKeys(_)
SortKeys(S) ==
    IF S = {} THEN <<>>
    ELSE LET m == CHOOSE a \in S : \A b \in S \ {a} : KeyLess(a, b)
         IN  <<m>> \o SortKeys(S \ {m})

\* df.groupby(['Order ID', 'Product ID']).agg({'Sales': 'sum', 'Quantity':
\* 'sum', 'Discount': 'mean', 'Profit': 'sum'}).reset_index(): groupby
\* defaults are sort=True (groups in key order) and dropna=True (rows with a
\* missing key belong to no group).
groupby_agg(df) ==
    LET keyed == SelectSeq(df.rows,
                   LAMBDA r : r["Order ID"] # NA /\ r["Product ID"] # NA)
        keys  == SortKeys({<<r["Order ID"], r["Product ID"]>> : r \in Range(keyed)})
        Group(k) == SelectSeq(keyed,
                      LAMBDA r : <<r["Order ID"], r["Product ID"]>> = k)
        Agg(k) == ("Order ID" :> k[1]) @@ ("Product ID" :> k[2])
                  @@ ("Sales" :> SumOver(Group(k), "Sales"))
                  @@ ("Quantity" :> SumOver(Group(k), "Quantity"))
                  @@ ("Discount" :> Mean(Group(k), "Discount"))
                  @@ ("Profit" :> SumOver(Group(k), "Profit"))
    IN  [columns |-> <<"Order ID", "Product ID", "Sales", "Quantity",
                       "Discount", "Profit">>,
         rows    |-> [i \in 1..Len(keys) |-> Agg(keys[i])]]

\* to_csv as it would be with mode='a': the rows are added to the file.
to_csv_append(fs, name, df) ==
    [fs EXCEPT ![name] = [exists |-> TRUE, columns |-> df.columns,
                          rows |-> fs[name].rows \o df.rows]]

\* to_csv as it would be if guarded by "if not frame.empty".
to_csv_unless_empty(fs, name, df) ==
    IF df.rows = <<>> THEN fs
    ELSE [fs EXCEPT ![name] = [exists |-> TRUE, columns |-> df.columns,
                               rows |-> df.rows]]

\* frame.to_csv(os.path.join(output_dir, name), index=False): the file is
\* created or truncated and holds the header and the rows of the frame.
to_csv(fs, name, df) ==
    [fs EXCEPT ![name] = [exists |-> TRUE, columns |-> df.columns, rows |-> df.rows]]

\* ------------------------------------------------------- table extraction
CustomerCols == <<"Customer ID", "Customer Name", "Segment">>
LocationCols == <<"Postal Code", "City", "State", "Region">>
ProductCols  == <<"Product ID", "Product Name", "Sub-Category">>
OrderCols    == <<"Order ID", "Order Date", "Ship Date", "Ship Mode",
                  "Customer ID", "Postal Code">>
MeasureCols  == <<"Sales", "Quantity", "Discount", "Profit">>

\* extract_customers as it would be with subset=['Customer Name'].
extract_customers_by_name(df) ==
    rename(drop_duplicates(Select(df, CustomerCols), {"Customer Name"}),
           ("Customer ID" :> "CustomerID") @@ ("Customer Name" :> "CustomerName"))

extract_customers(df) ==
    rename(drop_duplicates(Select(df, CustomerCols), {"Customer ID"}),
           ("Customer ID" :> "CustomerID") @@ ("Customer Name" :> "CustomerName"))

extract_locations(df) ==
    rename(drop_duplicates(Select(df, LocationCols), {"Postal Code"}),
           ("Postal Code" :> "PostalCode"))

extract_categories(df) ==
    Select(index_plus_one(unique(df, "Category", "CategoryName"), "CategoryID"),
           <<"CategoryID", "CategoryName">>)

\* The frame kept in df_sub_categories and written to sub_categories.csv.
extract_sub_categories(df, categories) ==
    LET pairs  == drop_duplicates(Select(df, <<"Category", "Sub-Category">>),
                                  {"Category", "Sub-Category"})
        named  == rename(pairs, ("Category" :> "CategoryName")
                                @@ ("Sub-Category" :> "SubCategoryName"))
        merged == merge(named, categories, "CategoryName")
    IN  Select(index_plus_one(merged, "SubCategoryID"),
               <<"SubCategoryID", "SubCategoryName", "CategoryID">>)

extract_products(df, sub_categories) ==
    LET prods  == drop_duplicates(Select(df, ProductCols), {"Product ID"})
        named  == rename(prods, ("Product ID" :> "ProductID")
                                @@ ("Product Name" :> "ProductName")
                                @@ ("Sub-Category" :> "SubCategoryName"))
        merged == merge(named,
                        Select(sub_categories, <<"SubCategoryID", "SubCategoryName">>),
                        "SubCategoryName")
    IN  Select(merged, <<"ProductID", "ProductName", "SubCategoryID">>)

extract_orders(df) ==
    rename(drop_duplicates(Select(df, OrderCols), {"Order ID"}),
           ("Order ID" :> "OrderID") @@ ("Order Date" :> "OrderDate")
           @@ ("Ship Date" :> "ShipDate") @@ ("Ship Mode" :> "ShipMode")
           @@ ("Customer ID" :> "CustomerID") @@ ("Postal Code" :> "PostalCode"))

extract_order_details(df) ==
    rename(groupby_agg(df),
           ("Order ID" :> "OrderID") @@ ("Product ID" :> "ProductID"))

\* ------------------------------------------------------------------ inputs
AllCols == <<"Order ID", "Order Date", "Ship Date", "Ship Mode", "Customer ID",
             "Customer Name", "Segment", "City", "State", "Postal Code",
             "Region", "Product ID", "Category", "Sub-Category",
             "Product Name", "Sales", "Quantity", "Discount", "Profit">>

Tables == {"customers", "locations", "categories", "sub_categories",
           "products", "orders", "order_details"}

BaseRow ==
    ("Order ID" :> 1) @@ ("Order Date" :> "11/8/2016") @@ ("Ship Date" :> "11/11/2016")
    @@ ("Ship Mode" :> "Second Class") @@ ("Customer ID" :> "CG-12520")
    @@ ("Customer Name" :> "Claire Gute") @@ ("Segment" :> "Consumer")
    @@ ("City" :> "Henderson") @@ ("State" :> "Kentucky")
    @@ ("Postal Code" :> "42420") @@ ("Region" :> "South")
    @@ ("Product ID" :> 1) @@ ("Category" :> "Furniture")
    @@ ("Sub-Category" :> "Chairs") @@ ("Product Name" :> "Hon Chair")
    @@ ("Sales" :> 10) @@ ("Quantity" :> 1) @@ ("Discount" :> 10)
    @@ ("Profit" :> 2)

\* BaseRow with the cells of o (a function from some columns to values).
With(o) == [c \in Range(AllCols) |-> IF c \in DOMAIN o THEN o[c] ELSE BaseRow[c]]

\* Rows that vary who placed which order.
CustomerRows ==
    {With(("Customer ID" :> c) @@ ("Customer Name" :> n) @@ ("Order ID" :> o)) :
        c \in {"CG-12520", "DV-13045"}, n \in {"Claire Gute", "Darrin Van Huff"},
        o \in {1, 2}}

\* Rows that vary where which order went.
LocationRows ==
    {With(("Postal Code" :> z) @@ ("City" :> t) @@ ("Order ID" :> o)) :
        z \in {"42420", "90036"}, t \in {"Henderson", "Los Angeles"}, o \in {1, 2}}

\* Rows that vary the category hierarchy.
HierarchyRows ==
    {With(("Category" :> c) @@ ("Sub-Category" :> s)) :
        c \in {"Furniture", "Office Supplies"}, s \in {"Chairs", "Paper", "Tables"}}

\* Rows that vary the products.
ProductRows ==
    {With(("Product ID" :> p) @@ ("Product Name" :> n) @@ ("Sub-Category" :> s)) :
        p \in {1, 2}, n \in {"Hon Chair", "Xerox 1967"}, s \in {"Chairs", "Paper"}}

\* Rows that vary the line items; the Order ID cell may be missing.
Measures ==
    {("Sales" :> 10) @@ ("Quantity" :> 1) @@ ("Discount" :> 10) @@ ("Profit" :> 2),
     ("Sales" :> 20) @@ ("Quantity" :> 2) @@ ("Discount" :> 30) @@ ("Profit" :> 0 - 3)}

DetailRows ==
    {With(("Order ID" :> o) @@ ("Product ID" :> p) @@ m) :
        o \in {NA, 1, 2}, p \in {1, 2}, m \in Measures}

RowFamilies == {CustomerRows, LocationRows, HierarchyRows, ProductRows, DetailRows}

SeqsUpTo(S, n) == UNION {[1..k -> S] : k \in 0..n}

\* One column of each extraction step, to be absent from a malformed export.
DroppableCols == {"Segment", "Region", "Category", "Sub-Category",
                  "Product Name", "Ship Mode", "Profit"}

Without(col) == SelectSeq(AllCols, LAMBDA c : c # col)

\* The input files: absent, unreadable, a well-formed export (header and up
\* to MaxRows records), or an export that lacks one column.
Inputs ==
    {[status |-> s, columns |-> <<>>, rows |-> <<>>] : s \in {"missing", "unreadable"}}
    \cup {[status |-> "ok", columns |-> AllCols, rows |-> r] :
            r \in UNION {SeqsUpTo(F, MaxRows) : F \in RowFamilies}}
    \cup {[status |-> "ok", columns |-> Without(c),
           rows |-> [i \in 1..k |-> [d \in Range(Without(c)) |-> BaseRow[d]]]] :
            c \in DroppableCols, k \in 0..1}

NoFile == [exists |-> FALSE, columns |-> <<>>, rows |-> <<>>]
OldFile == [exists |-> TRUE, columns |-> <<"old">>, rows |-> <<("old" :> "old")>>]
NoFrame == [columns |-> <<>>, rows |-> <<>>]

\* ------------------------------------------------------------------- state
VARIABLES
    input,              \* the CSV file at input_csv_path
    pc,                 \* position of the run
    df,                 \* the loaded frame
    dirExists,          \* whether normalized_superstore_data/ exists
    files,              \* the table files of the output directory
    df_categories,      \* frames kept for the later merges
    df_sub_categories,
    written,            \* the table files this run has written
    run,                \* number of the current run
    prev                \* the table files as the previous run left them

\* The dashboard (main.py): one cached MySQL connection, run_query under
\* st.cache_data(ttl=600) and execute_mod_query.
VARIABLES
    conn,               \* "up" or "down": conn.is_connected()
    db,                 \* the committed data, as the number of its version
    pending,            \* whether the connection holds an uncommitted change
    cache,              \* st.cache_data of run_query, by query text
    commits,            \* number of commits made by execute_mod_query
    cleared,            \* the queries whose entries the latest commit cleared
    calls,              \* number of calls made so far
    last                \* the latest call and what it returned

normalizer == <<input, pc, df, dirExists, files, df_categories, df_sub_categories,
                written, run, prev>>

dashboard == <<conn, db, pending, cache, commits, cleared, calls, last>>

vars == <<input, pc, df, dirExists, files, df_categories, df_sub_categories,
          written, run, prev, conn, db, pending, cache, commits, cleared,
          calls, last>>

\* The query texts passed to run_query (two of those main.py builds).
Queries == {"kpi_query", "product_sales_query"}

NoEntry == [present |-> FALSE, ok |-> FALSE, data |-> 0, at |-> 0]

NoCall == [op |-> "none", query |-> "", ok |-> FALSE, data |-> 0, hit |-> FALSE,
           at |-> 0, ret |-> FALSE, error |-> FALSE]

\* The dashboard after init_connection() succeeded, before any query.
DashboardStart ==
    /\ conn = "up"
    /\ db = 0
    /\ pending = FALSE
    /\ cache = [q \in Queries |-> NoEntry]
    /\ commits = 0
    /\ cleared = {}
    /\ calls = 0
    /\ last = NoCall

Init ==
    /\ input \in Inputs
    /\ pc = "load"
    /\ df = NoFrame
    /\ \/ dirExists = FALSE /\ files = [t \in Tables |-> NoFile]
       \/ dirExists = TRUE /\ files = [t \in Tables |-> OldFile]
    /\ df_categories = NoFrame
    /\ df_sub_categories = NoFrame
    /\ written = {}
    /\ run = 1
    /\ prev = [t \in Tables |-> NoFile]
    /\ DashboardStart

\* ----------------------------------------------------------------- actions
\* Load as it would be if the output directory were created before the read.
Load_after_makedirs ==
    /\ pc = "load"
    /\ dirExists' = TRUE
    /\ IF input.status = "ok"
       THEN /\ df' = [columns |-> input.columns, rows |-> input.rows]
            /\ pc' = "mkdir"
       ELSE /\ df' = df
            /\ pc' = "aborted"
    /\ UNCHANGED <<input, files, df_categories, df_sub_categories,
                   written, run, prev>>
    /\ UNCHANGED dashboard

\* pd.read_csv inside try/except: both handlers print and return.
Load ==
    /\ pc = "load"
    /\ IF input.status = "ok"
       THEN /\ df' = [columns |-> input.columns, rows |-> input.rows]
            /\ pc' = "mkdir"
       ELSE /\ df' = df
            /\ pc' = "aborted"
    /\ UNCHANGED <<input, dirExists, files, df_categories, df_sub_categories,
                   written, run, prev>>
    /\ UNCHANGED dashboard

\* if not os.path.exists(output_dir): os.makedirs(output_dir)
MakeOutputDir ==
    /\ pc = "mkdir"
    /\ dirExists' = TRUE
    /\ pc' = "customers"
    /\ UNCHANGED <<input, df, files, df_categories, df_sub_categories,
                   written, run, prev>>
    /\ UNCHANGED dashboard

\* df[[...]] and groupby(...).agg({...}) raise KeyError when the frame lacks
\* one of the named columns; nothing catches it.
HasCols(cols) == Range(cols) \subseteq Range(df.columns)

\* One extraction step: derive the table and write it, or die on KeyError.
Step(here, next, name, cols, frame) ==
    /\ pc = here
    /\ IF HasCols(cols)
       THEN /\ files' = to_csv(files, name, frame)
            /\ written' = written \cup {name}
            /\ pc' = next
       ELSE /\ pc' = "failed"
            /\ UNCHANGED <<files, written>>
    /\ UNCHANGED <<input, df, dirExists, run, prev>>
    /\ UNCHANGED dashboard

Customers ==
    /\ Step("customers", "locations", "customers", CustomerCols, extract_customers(df))
    /\ UNCHANGED <<df_categories, df_sub_categories>>

\* Locations as it would be with the file name of the step above left in
\* place: the locations frame goes to customers.csv.
Locations_into_customers_csv ==
    /\ Step("locations", "categories", "customers", LocationCols, extract_locations(df))
    /\ UNCHANGED <<df_categories, df_sub_categories>>

Locations ==
    /\ Step("locations", "categories", "locations", LocationCols, extract_locations(df))
    /\ UNCHANGED <<df_categories, df_sub_categories>>

Categories ==
    /\ Step("categories", "sub_categories", "categories", <<"Category">>,
            extract_categories(df))
    /\ df_categories' = IF HasCols(<<"Category">>) THEN extract_categories(df)
                        ELSE df_categories
    /\ UNCHANGED df_sub_categories

SubCategories ==
    /\ Step("sub_categories", "products", "sub_categories",
            <<"Category", "Sub-Category">>,
            extract_sub_categories(df, df_categories))
    /\ df_sub_categories' = IF HasCols(<<"Category", "Sub-Category">>)
                            THEN extract_sub_categories(df, df_categories)
                            ELSE df_sub_categories
    /\ UNCHANGED df_categories

Products ==
    /\ Step("products", "orders", "products", ProductCols,
            extract_products(df, df_sub_categories))
    /\ UNCHANGED <<df_categories, df_sub_categories>>

Orders ==
    /\ Step("orders", "order_details", "orders", OrderCols, extract_orders(df))
    /\ UNCHANGED <<df_categories, df_sub_categories>>

OrderDetails ==
    /\ Step("order_details", "done", "order_details",
            <<"Order ID", "Product ID">> \o MeasureCols, extract_order_details(df))
    /\ UNCHANGED <<df_categories, df_sub_categories>>

\* The script is run again on the same input file.
Rerun ==
    /\ pc = "done"
    /\ run < MaxRuns
    /\ run' = run + 1
    /\ prev' = files
    /\ pc' = "load"
    /\ df' = NoFrame
    /\ df_categories' = NoFrame
    /\ df_sub_categories' = NoFrame
    /\ written' = {}
    /\ UNCHANGED <<input, dirExists, files>>
    /\ UNCHANGED dashboard

Next ==
    \/ Load
    \/ MakeOutputDir
    \/ Customers
    \/ Locations
    \/ Categories
    \/ SubCategories
    \/ Products
    \/ Orders
    \/ OrderDetails
    \/ Rerun

Spec == Init /\ [][Next]_vars

\* --------------------------------------------------------------- dashboard
\* The body of run_query: reconnect if the connection is lost, then
\* pd.read_sql; any exception gives an empty DataFrame.  reconnected and
\* read say whether conn.reconnect() and pd.read_sql succeed.
QueryResult(reconnected, read) ==
    IF (conn = "up" \/ reconnected) /\ read
    THEN [ok |-> TRUE, data |-> db]
    ELSE [ok |-> FALSE, data |-> 0]

\* run_query(query) under @st.cache_data(ttl=600): a cached result is
\* returned without running the body; otherwise the body runs and what it
\* returns, the empty frame of the error path included, is cached.
RunQuery(q) ==
    /\ calls < MaxCalls
    /\ calls' = calls + 1
    /\ IF cache[q].present
       THEN /\ last' = [NoCall EXCEPT !.op = "run_query", !.query = q,
                           !.ok = cache[q].ok, !.data = cache[q].data,
                           !.hit = TRUE, !.at = cache[q].at]
            /\ UNCHANGED <<conn, cache>>
       ELSE \E reconnected, read \in BOOLEAN :
               LET r == QueryResult(reconnected, read)
               IN  /\ conn' = IF conn = "down" /\ reconnected THEN "up" ELSE conn
                   /\ cache' = [cache EXCEPT ![q] =
                                   [present |-> TRUE, ok |-> r.ok, data |-> r.data,
                                    at |-> commits]]
                   /\ last' = [NoCall EXCEPT !.op = "run_query", !.query = q,
                                  !.ok = r.ok, !.data = r.data, !.at = commits]
    /\ UNCHANGED <<db, pending, commits, cleared>>
    /\ UNCHANGED normalizer

\* execute_mod_query as it would be without st.cache_data.clear().
ExecuteModQuery_without_clear ==
    /\ calls < MaxCalls
    /\ calls' = calls + 1
    /\ IF conn # "up"
       THEN /\ last' = [NoCall EXCEPT !.op = "execute_mod_query"]
            /\ UNCHANGED <<db, pending, cache, commits, cleared>>
       ELSE \/ /\ db' = db + 1
               /\ pending' = FALSE
               /\ commits' = commits + 1
               /\ cleared' = {}
               /\ cache' = cache
               /\ last' = [NoCall EXCEPT !.op = "execute_mod_query", !.ret = TRUE]
            \/ /\ pending' = FALSE
               /\ last' = [NoCall EXCEPT !.op = "execute_mod_query", !.error = TRUE]
               /\ UNCHANGED <<db, cache, commits, cleared>>
    /\ UNCHANGED conn
    /\ UNCHANGED normalizer

\* execute_mod_query(query, params): returns False when the connection is
\* not up; otherwise execute and commit, clear the cache and return True, or,
\* on a mysql Error from execute or from commit, roll back and return False.
ExecuteModQuery ==
    /\ calls < MaxCalls
    /\ calls' = calls + 1
    /\ IF conn # "up"
       THEN /\ last' = [NoCall EXCEPT !.op = "execute_mod_query"]
            /\ UNCHANGED <<db, pending, cache, commits, cleared>>
       ELSE \/ /\ db' = db + 1
               /\ pending' = FALSE
               /\ commits' = commits + 1
               /\ cleared' = {q \in Queries : cache[q].present}
               /\ cache' = [q \in Queries |-> NoEntry]
               /\ last' = [NoCall EXCEPT !.op = "execute_mod_query", !.ret = TRUE]
            \/ /\ pending' = FALSE
               /\ last' = [NoCall EXCEPT !.op = "execute_mod_query", !.error = TRUE]
               /\ UNCHANGED <<db, cache, commits, cleared>>
    /\ UNCHANGED conn
    /\ UNCHANGED normalizer

\* The connection to the server is lost.
ConnectionLost ==
    /\ conn = "up"
    /\ conn' = "down"
    /\ UNCHANGED <<db, pending, cache, commits, cleared, calls, last>>
    /\ UNCHANGED normalizer

\* ttl=600: a cached result older than ten minutes is dropped.
Expire(q) ==
    /\ cache[q].present
    /\ cache' = [cache EXCEPT ![q] = NoEntry]
    /\ UNCHANGED <<conn, db, pending, commits, cleared, calls, last>>
    /\ UNCHANGED normalizer

\* The dashboard runs on its own: the normalizer is not running.
DashInit ==
    /\ input = [status |-> "missing", columns |-> <<>>, rows |-> <<>>]
    /\ pc = "load"
    /\ df = NoFrame
    /\ dirExists = FALSE
    /\ files = [t \in Tables |-> NoFile]
    /\ df_categories = NoFrame
    /\ df_sub_categories = NoFrame
    /\ written = {}
    /\ run = 1
    /\ prev = [t \in Tables |-> NoFile]
    /\ DashboardStart

DashNext ==
    \/ \E q \in Queries : RunQuery(q)
    \/ ExecuteModQuery
    \/ ConnectionLost
    \/ \E q \in Queries : Expire(q)

DashSpec == DashInit /\ [][DashNext]_vars

\* ------------------------------------------------------------- properties
Out(t) == files[t].rows

\* The cells of an output column, and of an input column.
OutKeys(t, col) == {Out(t)[k][col] : k \in DOMAIN Out(t)}
InKeys(col) == {input.rows[i][col] : i \in DOMAIN input.rows}

\* Table t holds exactly one row for each value of input column incol (in
\* its column outcol) and no row for any other value.
OneRowPerKey(t, outcol, incol) ==
    /\ \A v \in InKeys(incol) :
          Cardinality({k \in DOMAIN Out(t) : Out(t)[k][outcol] = v}) = 1
    /\ OutKeys(t, outcol) \subseteq InKeys(incol)

\* The first input row whose cell in column col is v.
FirstRow(col, v) ==
    input.rows[CHOOSE i \in DOMAIN input.rows :
                  /\ input.rows[i][col] = v
                  /\ \A j \in 1..(i - 1) : input.rows[j][col] # v]

\* C1: a run that has loaded its input and failed at an extraction step has
\* written either none of the seven table files or all of them.
C1_FailureLeavesNoneOrAll ==
    pc = "failed" => (written = {} \/ written = Tables)

\* C2: when the input file is missing or unreadable the run aborts with the
\* output directory and every table file as they were.
C2_AbortBeforeAnyOutput ==
    [][(pc = "load" /\ input.status # "ok") =>
          /\ pc' = "aborted"
          /\ dirExists' = dirExists
          /\ files' = files
          /\ written' = written]_vars

C2_Witness ==
    /\ pc = "aborted"
    /\ input.status = "missing"
    /\ ~dirExists
    /\ \A t \in Tables : ~files[t].exists

\* C3: whatever the pairing of sub-category names with category names, the
\* products table has exactly one row per distinct ProductID of the input.
C3_ProductsOneRowPerProductID ==
    "products" \in written => OneRowPerKey("products", "ProductID", "Product ID")

\* C4: customers, locations and orders each hold exactly one row per
\* distinct CustomerID, PostalCode and OrderID of the input.
C4_NaturalKeyTablesOneRowPerKey ==
    /\ "customers" \in written =>
          OneRowPerKey("customers", "CustomerID", "Customer ID")
    /\ "locations" \in written =>
          OneRowPerKey("locations", "PostalCode", "Postal Code")
    /\ "orders" \in written =>
          OneRowPerKey("orders", "OrderID", "Order ID")

\* A run has finished on an input in which a customer appears in two rows
\* under two names and a second customer appears as well.
C4_Witness ==
    /\ pc = "done"
    /\ Cardinality(InKeys("Customer ID")) = 2
    /\ \E i, j \in DOMAIN input.rows :
          /\ i < j
          /\ input.rows[i]["Customer ID"] = input.rows[j]["Customer ID"]
          /\ input.rows[i]["Customer Name"] # input.rows[j]["Customer Name"]
    /\ Len(Out("customers")) = 2

\* C5: every foreign key of the written tables resolves: sub_categories to
\* categories, products to sub_categories, orders to customers and locations.
C5_ForeignKeysResolve ==
    /\ "sub_categories" \in written =>
          OutKeys("sub_categories", "CategoryID") \subseteq
              OutKeys("categories", "CategoryID")
    /\ "products" \in written =>
          OutKeys("products", "SubCategoryID") \subseteq
              OutKeys("sub_categories", "SubCategoryID")
    /\ "orders" \in written =>
          /\ OutKeys("orders", "CustomerID") \subseteq
                OutKeys("customers", "CustomerID")
          /\ OutKeys("orders", "PostalCode") \subseteq
                OutKeys("locations", "PostalCode")

\* A run has finished with two orders placed by two customers who share a
\* name.
C5_Witness ==
    /\ pc = "done"
    /\ Len(Out("orders")) = 2
    /\ Cardinality(OutKeys("orders", "CustomerID")) = 2
    /\ Cardinality(InKeys("Customer Name")) = 1

\* The position of the first input row that satisfies P.
FirstPos(P(_)) ==
    CHOOSE i \in DOMAIN input.rows :
        P(input.rows[i]) /\ \A j \in 1..(i - 1) : ~P(input.rows[j])

InPairs == {<<input.rows[i]["Category"], input.rows[i]["Sub-Category"]>> :
               i \in DOMAIN input.rows}

CatPos(c) == FirstPos(LAMBDA r : r["Category"] = c)
PairPos(p) == FirstPos(LAMBDA r : r["Category"] = p[1] /\ r["Sub-Category"] = p[2])

\* 1-based rank of first appearance among the distinct values.
CatRank(c) == Cardinality({d \in InKeys("Category") : CatPos(d) <= CatPos(c)})
PairRank(p) == Cardinality({q \in InPairs : PairPos(q) <= PairPos(p)})

\* C6: CategoryID is the rank of first appearance of the category name and
\* the IDs are exactly 1..N; SubCategoryID is the rank of first appearance of
\* the (Category, Sub-Category) pair and the IDs are exactly 1..M.
C6_SurrogateKeysRankFirstAppearance ==
    /\ "categories" \in written =>
          /\ Len(Out("categories")) = Cardinality(InKeys("Category"))
          /\ OutKeys("categories", "CategoryID") = 1..Cardinality(InKeys("Category"))
          /\ \A k \in DOMAIN Out("categories") :
                Out("categories")[k]["CategoryID"] =
                    CatRank(Out("categories")[k]["CategoryName"])
    /\ "sub_categories" \in written =>
          /\ Len(Out("sub_categories")) = Cardinality(InPairs)
          /\ OutKeys("sub_categories", "SubCategoryID") = 1..Cardinality(InPairs)
          /\ \A p \in InPairs : \E k \in DOMAIN Out("sub_categories") :
                /\ Out("sub_categories")[k]["SubCategoryID"] = PairRank(p)
                /\ Out("sub_categories")[k]["SubCategoryName"] = p[2]
                /\ Out("sub_categories")[k]["CategoryID"] = CatRank(p[1])

\* A run has finished on (Furniture, Chairs), (Office Supplies, Paper),
\* (Furniture, Tables) and wrote Furniture=1, Office Supplies=2; Chairs=1,
\* Paper=2, Tables=3.
C6_Witness ==
    /\ pc = "done"
    /\ [i \in DOMAIN input.rows |->
           <<input.rows[i]["Category"], input.rows[i]["Sub-Category"]>>]
         = << <<"Furniture", "Chairs">>, <<"Office Supplies", "Paper">>,
              <<"Furniture", "Tables">> >>
    /\ [k \in DOMAIN Out("categories") |->
           <<Out("categories")[k]["CategoryName"], Out("categories")[k]["CategoryID"]>>]
         = << <<"Furniture", 1>>, <<"Office Supplies", 2>> >>
    /\ [k \in DOMAIN Out("sub_categories") |->
           <<Out("sub_categories")[k]["SubCategoryName"],
             Out("sub_categories")[k]["SubCategoryID"]>>]
         = << <<"Chairs", 1>>, <<"Paper", 2>>, <<"Tables", 3>> >>

LineItems(p) ==
    SelectSeq(input.rows, LAMBDA r : r["Order ID"] = p[1] /\ r["Product ID"] = p[2])

InOrderProductPairs ==
    {<<input.rows[i]["Order ID"], input.rows[i]["Product ID"]>> :
        i \in DOMAIN input.rows}

\* C7: order_details holds exactly one row per distinct (OrderID, ProductID)
\* pair of the input, with Sales, Quantity and Profit summed and Discount
\* averaged over the pair's input rows, so the totals of Sales, Quantity and
\* Profit over order_details are the totals over the input.
C7_OrderDetailsAggregateEveryLineItem ==
    "order_details" \in written =>
        /\ Len(Out("order_details")) = Cardinality(InOrderProductPairs)
        /\ \A p \in InOrderProductPairs : \E k \in DOMAIN Out("order_details") :
              LET d == Out("order_details")[k]
                  g == LineItems(p)
              IN  /\ d["OrderID"] = p[1]
                  /\ d["ProductID"] = p[2]
                  /\ d["Sales"] = SumOver(g, "Sales")
                  /\ d["Quantity"] = SumOver(g, "Quantity")
                  /\ d["Profit"] = SumOver(g, "Profit")
                  /\ d["Discount"][1] * Len(g) = SumOver(g, "Discount") * d["Discount"][2]
        /\ \A c \in {"Sales", "Quantity", "Profit"} :
              SumOver(Out("order_details"), c) = SumOver(input.rows, c)

\* C8: a second run on the same input leaves each of the seven tables as the
\* first run left it (same rows, same order, same surrogate keys), having
\* written every one of them again.
C8_SecondRunSameTables ==
    (run >= 2 /\ pc = "done") => (written = Tables /\ files = prev)

\* A second run has finished on an input with two categories and three
\* sub-categories.
C8_Witness ==
    /\ run = 2
    /\ pc = "done"
    /\ Len(Out("categories")) = 2
    /\ Len(Out("sub_categories")) = 3
    /\ prev["products"].rows # <<>>

WellFormedEmpty ==
    input.status = "ok" /\ input.columns = AllCols /\ input.rows = <<>>

\* C9: on an input with zero records the run neither aborts nor fails, and
\* when it is done all seven tables exist with zero data rows.
C9_EmptyInputWritesSevenEmptyTables ==
    WellFormedEmpty =>
        /\ pc \notin {"aborted", "failed"}
        /\ pc = "done" =>
              \A t \in Tables : files[t].exists /\ files[t].rows = <<>>

\* A run on an input with zero records has finished where there was no
\* output directory.
C9_Witness ==
    /\ WellFormedEmpty
    /\ pc = "done"
    /\ run = 1
    /\ prev = [t \in Tables |-> NoFile]
    /\ \A t \in Tables : Out(t) = <<>> /\ files[t].columns # <<"old">>

\* Every row of table t carries, in its columns outcols, the cells that the
\* first input row with its key has in the columns incols.
FirstWins(t, outkey, inkey, outcols, incols) ==
    /\ OutKeys(t, outkey) = InKeys(inkey)
    /\ \A k \in DOMAIN Out(t) : \A n \in DOMAIN outcols :
          Out(t)[k][outcols[n]] = FirstRow(inkey, Out(t)[k][outkey])[incols[n]]

\* C10: the customers, locations, products and orders rows carry the
\* attribute values of the first input row with their key; a products row's
\* SubCategoryID is one that sub_categories gives to the sub-category name
\* of that first row.
C10_FirstOccurrenceWins ==
    /\ "customers" \in written =>
          FirstWins("customers", "CustomerID", "Customer ID",
                    <<"CustomerName", "Segment">>, <<"Customer Name", "Segment">>)
    /\ "locations" \in written =>
          FirstWins("locations", "PostalCode", "Postal Code",
                    <<"City", "State", "Region">>, <<"City", "State", "Region">>)
    /\ "products" \in written =>
          /\ FirstWins("products", "ProductID", "Product ID",
                       <<"ProductName">>, <<"Product Name">>)
          /\ \A k \in DOMAIN Out("products") :
                \E j \in DOMAIN Out("sub_categories") :
                   /\ Out("sub_categories")[j]["SubCategoryID"] =
                         Out("products")[k]["SubCategoryID"]
                   /\ Out("sub_categories")[j]["SubCategoryName"] =
                         FirstRow("Product ID",
                                  Out("products")[k]["ProductID"])["Sub-Category"]
    /\ "orders" \in written =>
          FirstWins("orders", "OrderID", "Order ID",
                    <<"OrderDate", "ShipDate", "ShipMode", "CustomerID", "PostalCode">>,
                    <<"Order Date", "Ship Date", "Ship Mode", "Customer ID", "Postal Code">>)

\* A run has finished on an input where a product appears twice, the second
\* time under another name and another sub-category.
C10_Witness ==
    /\ pc = "done"
    /\ \E i, j \in DOMAIN input.rows :
          /\ i < j
          /\ input.rows[i]["Product ID"] = input.rows[j]["Product ID"]
          /\ input.rows[i]["Product Name"] # input.rows[j]["Product Name"]
          /\ input.rows[i]["Sub-Category"] # input.rows[j]["Sub-Category"]
    /\ Len(Out("products")) = Cardinality(InKeys("Product ID"))

\* C11: the tables are written in dependency order (categories before
\* sub_categories before products; customers and locations before orders;
\* order_details after all the others), and a table file written in a run is
\* not changed again by that run.
C11_DependencyOrderAndWriteOnce ==
    [][/\ "sub_categories" \in written' => "categories" \in written'
       /\ "products" \in written' => "sub_categories" \in written'
       /\ "orders" \in written' => {"customers", "locations"} \subseteq written'
       /\ "order_details" \in written' => written' = Tables
       /\ \A t \in written \cap written' : files'[t] = files[t]]_vars

\* A run is about to derive orders: the five tables before it are written,
\* products with two rows, and orders and order_details are not.
C11_Witness ==
    /\ pc = "orders"
    /\ written = Tables \ {"orders", "order_details"}
    /\ Len(Out("products")) = 2
    /\ Len(Out("sub_categories")) = 2

\* The (CategoryName, SubCategoryName) pairs obtained by joining
\* sub_categories to categories on CategoryID.
JoinedPairs ==
    {<<Out("categories")[c]["CategoryName"], Out("sub_categories")[k]["SubCategoryName"]>> :
        <<c, k>> \in {x \in (DOMAIN Out("categories")) \X (DOMAIN Out("sub_categories")) :
                        Out("categories")[x[1]]["CategoryID"] =
                            Out("sub_categories")[x[2]]["CategoryID"]}}

\* C12: whatever the order of the input rows, joining sub_categories to
\* categories on CategoryID gives exactly the distinct (Category,
\* Sub-Category) pairs of the input, every sub_categories row joining to one
\* categories row.
C12_SurrogateKeysConsistent ==
    "sub_categories" \in written =>
        /\ JoinedPairs = InPairs
        /\ \A k \in DOMAIN Out("sub_categories") :
              Cardinality({c \in DOMAIN Out("categories") :
                  Out("categories")[c]["CategoryID"] =
                      Out("sub_categories")[k]["CategoryID"]}) = 1

\* A run has finished on the rows (Furniture, Tables), (Office Supplies,
\* Paper), (Furniture, Chairs): Tables=1 and Chairs=3, the reverse of the
\* IDs the rows get in the order Chairs, Paper, Tables.
C12_Witness ==
    /\ pc = "done"
    /\ [i \in DOMAIN input.rows |->
           <<input.rows[i]["Category"], input.rows[i]["Sub-Category"]>>]
         = << <<"Furniture", "Tables">>, <<"Office Supplies", "Paper">>,
              <<"Furniture", "Chairs">> >>
    /\ [k \in DOMAIN Out("sub_categories") |->
           <<Out("sub_categories")[k]["SubCategoryName"],
             Out("sub_categories")[k]["SubCategoryID"],
             Out("sub_categories")[k]["CategoryID"]>>]
         = << <<"Tables", 1, 1>>, <<"Paper", 2, 2>>, <<"Chairs", 3, 1>> >>

\* C13: a run_query that returns a cached result returns one cached since
\* the latest commit; an execute_mod_query that commits leaves the cache
\* empty and returns True; one that hits a database error rolls back, returns
\* False and leaves the cache and the data as they were.
C13_CacheInvalidatedOnWrite ==
    [][calls' = calls + 1 =>
          /\ (last'.op = "run_query" /\ last'.hit) => last'.at = commits'
          /\ (last'.op = "execute_mod_query" /\ commits' # commits) =>
                /\ last'.ret
                /\ \A q \in Queries : ~cache'[q].present
          /\ (last'.op = "execute_mod_query" /\ last'.error) =>
                /\ ~last'.ret
                /\ ~pending'
                /\ db' = db
                /\ cache' = cache]_vars

\* After a commit that cleared its cached result, a query was run again and
\* returned the data the commit wrote.
C13_Witness ==
    /\ last.op = "run_query"
    /\ last.query \in cleared
    /\ ~last.hit
    /\ last.ok
    /\ commits >= 1
    /\ last.data = db

====
